---- MODULE Spec2Model ----
(***************************************************************************)
(* Model of the interception framework of the agentic-learning SDK         *)
(* (typescript/src/interceptors): the Vercel AI SDK interceptor, the       *)
(* Claude Agent SDK interceptor and the interceptor registry.              *)
(*                                                                         *)
(* Text is a sequence of tokens; "" (and null, where the code only tests   *)
(* truthiness) is the empty sequence.                                      *)
(***************************************************************************)
EXTENDS Integers, Sequences, FiniteSets, TLC

(* ---------------------------------------------------------------- bounds *)

\* Interceptor instances that may be constructed per variant.
MaxInst == 2

(* ------------------------------------------------------------------ text *)

NL == "\n"
SP == " "

RECURSIVE Join(_, _)
\* Array.prototype.join: the texts of `parts`, `sep` between neighbours.
Join(parts, sep) ==
  IF parts = <<>> THEN <<>>
  ELSE IF Len(parts) = 1 THEN parts[1]
  ELSE parts[1] \o sep \o Join(Tail(parts), sep)

(* -------------------------------------------------------------- requests *)

\* A content part of a multi-modal message.
Part(type, text) == [type |-> type, text |-> text]

\* A prompt message whose content is a string.
Msg(role, text) == [role |-> role, kind |-> "str", text |-> text, parts |-> <<>>]

\* A prompt message whose content is neither a string nor an array.
MsgOther(role) == [role |-> role, kind |-> "other", text |-> <<>>, parts |-> <<>>]

\* A prompt message whose content is an array of parts.
MsgParts(role, parts) == [role |-> role, kind |-> "parts", text |-> <<>>, parts |-> parts]

\* Provider call options; hasPrompt = FALSE is an options object without prompt.
Options(prompt) == [hasPrompt |-> TRUE, prompt |-> prompt]

OptionsNoPrompt == [hasPrompt |-> FALSE, prompt |-> <<>>]

ReqUser == Options(<<Msg("user", <<"u">>)>>)

ReqSysUser == Options(<<Msg("system", <<"s">>), Msg("user", <<"u">>)>>)

ReqParts ==
  Options(<<MsgParts("user", <<Part("text", <<"u">>), Part("image", <<>>),
                                 Part("text", <<"v">>)>>)>>)

\* The requests callers make.
Requests == {ReqUser, ReqSysUser, ReqParts, OptionsNoPrompt}

(* ------------------------------------------------------------- responses *)

\* What the provider's doGenerate resolves to: shape "text" carries .text,
\* "content" carries .content (an array of parts), "both" carries the two,
\* "empty" carries neither, "null" is null/undefined.
Response(shape, text, parts) == [shape |-> shape, text |-> text, parts |-> parts]

RespText == Response("text", <<"a">>, <<>>)

RespContent ==
  Response("content", <<>>, <<Part("text", <<"a">>), Part("tool-call", <<>>),
                              Part("text", <<"b">>)>>)

RespEmpty == Response("empty", <<>>, <<>>)

RespNull == Response("null", <<>>, <<>>)

Responses == {RespText, RespContent, RespEmpty, RespNull}

\* The outcome of an invocation: a value returned or an error raised; "hang"
\* is an invocation that never settles.
Returned(resp) == [kind |-> "ret", resp |-> resp, err |-> ""]

Raised(err) == [kind |-> "err", resp |-> RespNull, err |-> err]

Hang == [kind |-> "hang", resp |-> RespNull, err |-> ""]

\* The outcomes of the provider's own (un-instrumented) doGenerate.
OrigOutcomes == {Returned(r) : r \in Responses} \cup {Raised("ProviderError")}

(* ------------------------------------------------ scoped activation config *)

\* The configuration of a scope: agentName, client, captureOnly, the memory
\* context pre-fetched for the Claude proxy, and pendingUserMessage.
Config(agent, hasClient, captureOnly, memoryContext) ==
  [active |-> TRUE, agentName |-> agent, hasClient |-> hasClient,
   captureOnly |-> captureOnly, memoryContext |-> memoryContext,
   pendingUserMessage |-> <<>>]

\* getCurrentConfig() outside any scope: absence.
NoConfig ==
  [active |-> FALSE, agentName |-> "", hasClient |-> FALSE, captureOnly |-> FALSE,
   memoryContext |-> <<>>, pendingUserMessage |-> <<>>]

\* Memory values the gateway may hold for the agent (<<>>: none).
MemValues == {<<>>, <<"m">>}

\* learning() fills in the default client when none is given.
Configs == {Config("agent-1", TRUE, o, m) : o \in BOOLEAN, m \in MemValues}

(* ====================================================================== *)
(* VercelInterceptor: pure helpers                                         *)
(* ====================================================================== *)

RECURSIVE TextParts(_)
\* msg.content.filter(c => c.type === 'text').map(c => c.text || '')
TextParts(parts) ==
  IF parts = <<>> THEN <<>>
  ELSE (IF parts[1].type = "text" THEN <<parts[1].text>> ELSE <<>>)
       \o TextParts(Tail(parts))

RECURSIVE UserTexts(_)
\* The loop of extractUserMessagesFromOptions: one entry per user message.
UserTexts(prompt) ==
  IF prompt = <<>> THEN <<>>
  ELSE (IF prompt[1].role = "user"
        THEN (IF prompt[1].kind = "str" THEN <<prompt[1].text>>
              ELSE IF prompt[1].kind = "parts"
              THEN <<Join(TextParts(prompt[1].parts), <<SP>>)>>
              ELSE <<>>)
        ELSE <<>>)
       \o UserTexts(Tail(prompt))

\* An extraction that joins the user messages with a space.
extractUserMessagesSpaceJoined(options) ==
  IF ~options.hasPrompt THEN <<>> ELSE Join(UserTexts(options.prompt), <<SP>>)

\* The user-facing text of a request: user messages joined by newlines.
extractUserMessagesFromOptions(options) ==
  IF ~options.hasPrompt THEN <<>> ELSE Join(UserTexts(options.prompt), <<NL>>)

\* Whether retrieveAndInjectMemoryIntoOptions goes to the gateway at all.
injectionEnabled(config) ==
  ~config.captureOnly /\ config.hasClient /\ config.agentName # ""

\* options.prompt.some(msg => msg.role === 'system')
hasSystem(prompt) == \E i \in 1..Len(prompt) : prompt[i].role = "system"

\* An injection that hands the memory context on as a user message.
injectIntoPromptAsUser(prompt, memoryContext) == <<Msg("user", memoryContext)>> \o prompt

\* The prompt with the memory context in its system slot.
injectIntoPrompt(prompt, memoryContext) ==
  IF hasSystem(prompt)
  THEN [i \in 1..Len(prompt) |->
          IF prompt[i].role = "system"
          THEN [prompt[i] EXCEPT !.text = memoryContext \o <<NL, NL>> \o @]
          ELSE prompt[i]]
  ELSE <<Msg("system", memoryContext)>> \o prompt

\* retrieveAndInjectMemoryIntoOptions once the gateway answered: `retrieved`
\* is the retrieval's result (<<>>: null or empty), `failed` a retrieval error.
injectRetrieved(options, retrieved, failed) ==
  IF failed \/ retrieved = <<>> \/ ~options.hasPrompt THEN options
  ELSE [options EXCEPT !.prompt = injectIntoPrompt(options.prompt, retrieved)]

RECURSIVE ContentText(_)
\* The loop of buildResponseDictFromGenerate over response.content.
ContentText(parts) ==
  IF parts = <<>> THEN <<>>
  ELSE (IF parts[1].type = "text" /\ parts[1].text # <<>> THEN parts[1].text ELSE <<>>)
       \o ContentText(Tail(parts))

\* Whether buildResponseDictFromGenerate raises (a property read on null).
buildResponseThrows(response) == response.shape = "null"

\* response.text is there (shape "both": .text and .content are).
carriesText(response) == response.shape \in {"text", "both"}

\* response.content is there.
carriesContent(response) == response.shape \in {"content", "both"}

\* A normalizer that looks at response.content first.
buildResponseDictContentFirst(response) ==
  IF carriesContent(response) THEN ContentText(response.parts)
  ELSE IF carriesText(response) THEN response.text
  ELSE <<>>

\* The assistant text of a doGenerate response.
buildResponseDictFromGenerate(response) ==
  IF carriesText(response) /\ response.text # <<>> THEN response.text
  ELSE IF carriesContent(response) THEN ContentText(response.parts)
  ELSE <<>>

\* The message handed to persistence for a doGenerate response.
responseDict(response) ==
  [role |-> "assistant", content |-> buildResponseDictFromGenerate(response)]

\* A conversation turn handed to saveConversationTurn.
Turn(user, assistant) == [user |-> user, assistant |-> assistant]

(* ====================================================================== *)
(* State                                                                   *)
(* ====================================================================== *)

VARIABLES
  currentConfig,      \* the process-wide slot getCurrentConfig() reads
  hist,               \* "fresh", "succeeded" (an in-scope call succeeded), "exited"
                      \* (the scope of such a call was left and none is entered)
  vercelPresent,      \* an @ai-sdk provider package is loaded or loadable
  proto,              \* the model class prototype: method -> implementation
  vOriginalMethods,   \* per VercelInterceptor instance: this.originalMethods
  vPatchedClasses,    \* per VercelInterceptor instance: this.patchedClasses
  vConstructed,       \* VercelInterceptor instances constructed so far
  claudePresent,      \* the Claude Agent SDK package can be loaded
  claudeCached,       \* the Claude Agent SDK is in the module cache
  exportsProxy,       \* Proxy layers around the SDK's cached exports
  requireHooks,       \* hooks layered on Module.prototype.require, by owner
  tproto,             \* the transport prototype: method -> wrapper layers
  cOriginalMethods,   \* per ClaudeInterceptor instance: this.originalMethods
  cPatchedTransport,  \* per ClaudeInterceptor instance: this.patchedTransport
  cConstructed,       \* ClaudeInterceptor instances constructed so far
  interceptorClasses,    \* the registry's registered variants, in order
  installedInterceptors, \* the registry's installed instances, in order
  agents,             \* the gateway's agents, in the order list() returns them
  lastDelete,         \* the last AgentsClient.delete call, as observed
  lastCreate,         \* the last AgentsClient.create call, as observed
  last,               \* the last call to a patched surface, as observed
  stream              \* the stream the last call returned, if any

Insts == 1..MaxInst

VMethods == {"doGenerate", "doStream"}

\* An implementation a prototype slot or an originalMethods entry holds.
Original == [k |-> "orig", inst |-> 0]

Wrapper(i) == [k |-> "wrap", inst |-> i]

\* Map.get of a missing key.
Absent == [k |-> "absent", inst |-> 0]

(* ------------------------------------------------------ streams (shared) *)

\* A stream element: a Vercel chunk {type, textDelta} or a Claude SDKMessage
\* {type, message: {content}} whose content is a string or an array of blocks.
Chunk(type, text) == [type |-> type, kind |-> "str", text |-> text, parts |-> <<>>]

ChunkBlocks(type, parts) == [type |-> type, kind |-> "parts", text |-> <<>>, parts |-> parts]

\* What the provider's stream yields: its elements, and the pull that raises
\* (0: none; k: the k-th pull raises instead of yielding).
Source(chunks, errAt) == [chunks |-> chunks, errAt |-> errAt]

VChunks == <<Chunk("text-delta", <<"a">>), Chunk("finish", <<>>), Chunk("text-delta", <<"b">>)>>

VSources ==
  {Source(VChunks, e) : e \in {0, 3}} \cup {Source(<<Chunk("finish", <<>>)>>, 0)}

\* One wrapping generator around a provider stream: the variant, the user
\* text at creation (the Vercel wrapper's `userMessage`; for the Claude
\* wrapper what config.pendingUserMessage held then, which the wrapper does
\* not keep) and the accumulator.
Layer(variant, user) == [variant |-> variant, user |-> user, acc |-> <<>>]

\* A stream handed to a caller: the provider's source, the elements pulled
\* from it (pos), whether the generators' bodies have started, the elements
\* delivered to the caller, the wrappers (innermost first), the turns saved
\* by their finally blocks, and the config object the Claude wrappers closed
\* over (cfgAttached: it is still the current one; else cfgPending is its
\* pendingUserMessage).
NoStream ==
  [state |-> "none", source |-> Source(<<>>, 0), pos |-> 0, started |-> FALSE,
   delivered |-> <<>>, layers |-> <<>>, saves |-> <<>>,
   cfgAttached |-> FALSE, cfgPending |-> <<>>, unhandled |-> FALSE]

NewStream(source, layers, attached) ==
  [state |-> "open", source |-> source, pos |-> 0, started |-> FALSE,
   delivered |-> <<>>, layers |-> layers, saves |-> <<>>,
   cfgAttached |-> attached, cfgPending |-> <<>>, unhandled |-> FALSE]

(* ------------------------------------------------------- call observation *)

\* What one call did: its outcome, the requests handed to the provider's own
\* implementation, the memory retrievals issued, the saveConversationTurn
\* calls made, and the stream wrappers it created.
\* `ev` lists, in the order they happen, the retrievals issued ("retr"),
\* the invocations of the provider's implementation ("orig") and the saves
\* issued ("save").
Res(out, origReqs, retr, saves, layers) ==
  [out |-> out, origReqs |-> origReqs, retr |-> retr, saves |-> saves, layers |-> layers,
   ev |-> <<>>]

NoCall ==
  [surface |-> "none", config |-> NoConfig, options |-> OptionsNoPrompt,
   orig |-> Raised(""), retrieved |-> <<>>, save |-> "ok", afterExit |-> FALSE,
   res |-> Res(Raised(""), <<>>, 0, <<>>, <<>>)]

Observed(surface, options, env, res) ==
  [surface |-> surface, config |-> currentConfig, options |-> options,
   orig |-> env.orig, retrieved |-> env.retrieved,
   save |-> (IF res.saves # <<>> THEN env.save ELSE "ok"),
   afterExit |-> (hist = "exited" /\ ~currentConfig.active), res |-> res]

\* What the gateway's save does: the promise of saveConversationTurn
\* resolves ("ok"), rejects ("fail") or never settles ("pending").
SaveOutcomes == {"ok", "fail", "pending"}

\* The saves that settle; the stream wrappers do not wait for the others.
SettledSaves == {"ok", "fail"}

\* What the environment does during one call: the memory the gateway holds,
\* whether retrieval fails, the outcome of the provider's implementation and
\* what the gateway's save does.
Env(retrieved, retrFailed, orig) ==
  [retrieved |-> retrieved, retrFailed |-> retrFailed, orig |-> orig, save |-> "ok"]

(* ====================================================================== *)
(* VercelInterceptor                                                       *)
(* ====================================================================== *)

\* A save whose rejection nobody handles.
catchSaveNot(save) == save

\* saveConversationTurn(...).catch(() => {}): the promise the wrapper holds
\* resolves when the save resolves or rejects, and stays pending otherwise.
catchSave(save) == IF save = "pending" THEN "pending" ELSE "ok"

\* `await` of the save's promise before `return response`.
awaitSave(settled, out) ==
  IF settled = "ok" THEN out
  ELSE IF settled = "fail" THEN Raised("SaveError")
  ELSE Hang

\* A wrapper that does not wait for the retrieval before calling through.
sequencedUnawaited(before, inner, after) == inner \o before \o after

\* The order of one wrapper's steps: what it awaits before calling through,
\* the call through, and what it does once the call through has returned.
sequenced(before, inner, after) == before \o inner \o after

\* A wrapper that treats every call as in scope.
passThroughNever(config) == FALSE

\* `if (!config)`: no learning context active, pass through.
passThrough(config) == ~config.active

\* retrieveAndInjectMemoryIntoOptions: the options handed on and the number
\* of gateway retrievals issued.
retrieveAndInjectMemoryIntoOptions(config, options, env) ==
  IF injectionEnabled(config)
  THEN [options |-> injectRetrieved(options, env.retrieved, env.retrFailed), retr |-> 1]
  ELSE [options |-> options, retr |-> 0]

RECURSIVE invoke(_, _, _, _, _, _)
\* Calling implementation `impl` of `method` with `options`: the provider's
\* own implementation, or the wrapper of an interceptor instance, which is
\* interceptDoGenerate / interceptDoStream on that instance. `fuel` bounds
\* the nesting: a chain longer than the instances is a cycle, which overflows
\* the stack on the synchronous pass-through path and never settles in scope.
invoke(impl, method, options, config, env, fuel) ==
  IF impl.k = "orig"
  THEN [Res(env.orig, <<options>>, 0, <<>>, <<>>) EXCEPT !.ev = <<"orig">>]
  ELSE IF fuel = 0
  THEN Res(IF passThrough(config) THEN Raised("RangeError") ELSE Hang, <<>>, 0, <<>>, <<>>)
  ELSE
    LET i == impl.inst
        originalMethod == vOriginalMethods[i][method]
    IN IF passThrough(config)
       THEN IF originalMethod.k = "absent"
            THEN Res(Raised("Original method not found"), <<>>, 0, <<>>, <<>>)
            ELSE invoke(originalMethod, method, options, config, env, fuel - 1)
       ELSE
         LET userMessage == extractUserMessagesFromOptions(options)
             inj == retrieveAndInjectMemoryIntoOptions(config, options, env)
             retrEv == IF inj.retr > 0 THEN <<"retr">> ELSE <<>>
         IN IF originalMethod.k = "absent"
            THEN [Res(Raised("TypeError"), <<>>, inj.retr, <<>>, <<>>) EXCEPT !.ev = retrEv]
            ELSE
              LET r == invoke(originalMethod, method, inj.options, config, env, fuel - 1)
              IN IF r.out.kind # "ret"
                 THEN [r EXCEPT !.retr = @ + inj.retr,
                                !.ev = sequenced(retrEv, @, <<>>)]
                 ELSE IF method = "doStream"
                 THEN [r EXCEPT !.retr = @ + inj.retr,
                                !.ev = sequenced(retrEv, @, <<>>),
                                !.layers = @ \o <<Layer("vercel", userMessage)>>]
                 ELSE IF buildResponseThrows(r.out.resp)
                 THEN [r EXCEPT !.retr = @ + inj.retr, !.out = Raised("TypeError"),
                                !.ev = sequenced(retrEv, @, <<>>)]
                 ELSE [r EXCEPT !.retr = @ + inj.retr,
                                !.ev = sequenced(retrEv, @, <<"save">>),
                                !.out = awaitSave(catchSave(env.save), @),
                                !.saves = @ \o <<Turn(userMessage,
                                     buildResponseDictFromGenerate(r.out.resp))>>]

\* tryPatchProviderModels on instance i, when the model class is reachable.
tryPatchProviderModels(i) ==
  IF vPatchedClasses[i]
  THEN UNCHANGED <<proto, vOriginalMethods, vPatchedClasses>>
  ELSE /\ vOriginalMethods' =
            [vOriginalMethods EXCEPT ![i] =
               [m \in VMethods |-> IF @[m].k = "absent" THEN proto[m] ELSE @[m]]]
       /\ proto' = [m \in VMethods |-> Wrapper(i)]
       /\ vPatchedClasses' = [vPatchedClasses EXCEPT ![i] = TRUE]

\* VercelInterceptor.install() on instance i; `reachable`: the provider
\* factory yields a model instance whose prototype can be patched.
vercelInstallBody(i, reachable) ==
  IF vercelPresent /\ reachable
  THEN tryPatchProviderModels(i)
  ELSE UNCHANGED <<proto, vOriginalMethods, vPatchedClasses>>

\* The patchable state of the model class and of the VercelInterceptors.
VercelState == [proto |-> proto, om |-> vOriginalMethods, pc |-> vPatchedClasses]

\* VercelInterceptor.uninstall() on every instance of S: clears the
\* bookkeeping and leaves the prototype as it is.
vercelUninstallState(st, S) ==
  [st EXCEPT !.om = [i \in Insts |-> IF i \in S THEN [m \in VMethods |-> Absent] ELSE @[i]],
             !.pc = [i \in Insts |-> IF i \in S THEN FALSE ELSE @[i]]]

\* uninstall() on the instances of S, as a state change.
vercelUninstallBody(S) ==
  LET st == vercelUninstallState(VercelState, S)
  IN /\ proto' = st.proto
     /\ vOriginalMethods' = st.om
     /\ vPatchedClasses' = st.pc

(* ====================================================================== *)
(* ClaudeInterceptor                                                       *)
(* ====================================================================== *)

\* Layers (Proxy layers, require hooks, transport wrappers) the model follows.
MaxLayers == 2

CMethods == {"write", "readMessages"}

\* An originalMethods entry of a ClaudeInterceptor: has(key) and the stored
\* implementation, the original under `impl` wrapper layers.
Stored(impl) == [has |-> TRUE, impl |-> impl]

NotStored == [has |-> FALSE, impl |-> 0]

\* The patchable state of the Claude SDK and of the ClaudeInterceptors.
ClaudeState ==
  [exports |-> exportsProxy, tproto |-> tproto, om |-> cOriginalMethods,
   pt |-> cPatchedTransport]

\* patchClaudeSDK on instance i: the exports are proxied; if the dummy query
\* yields a transport (`transportOK`), write and readMessages are wrapped.
patchClaudeSDK(st, i, transportOK) ==
  LET proxied == [st EXCEPT !.exports = @ + 1]
      om2 == [m \in CMethods |->
                IF st.om[i][m].has THEN st.om[i][m] ELSE Stored(st.tproto[m])]
  IN IF ~transportOK THEN proxied
     ELSE [proxied EXCEPT !.om[i] = om2,
                          !.tproto = [m \in CMethods |-> om2[m].impl + 1],
                          !.pt[i] = TRUE]

\* A debug branch that marks the owner's transport as patched.
debugLogMarking(debug, st, i) == IF debug THEN [st EXCEPT !.pt[i] = TRUE] ELSE st

\* if (process.env.DEBUG_AGENTIC_LEARNING) { console.log(...) } in the code of
\* instance i: the patchable state after the branch. The flag is read from
\* the environment each time the branch is reached.
debugLog(debug, st, i) == st

RECURSIVE runRequireHooks(_, _, _, _)
\* The hooks' work after the original require loaded the SDK, innermost hook
\* first: a hook patches unless its owner's patchedTransport is set.
runRequireHooks(st, hooks, transportOK, debug) ==
  IF hooks = <<>> THEN st
  ELSE LET i == hooks[1]
           st2 == IF st.pt[i] THEN st
                  ELSE debugLog(debug,
                                patchClaudeSDK(debugLog(debug, st, i), i, transportOK), i)
       IN runRequireHooks(st2, Tail(hooks), transportOK, debug)

\* ClaudeInterceptor.install() on instance i.
claudeInstallState(st, i, transportOK) ==
  IF st.pt[i] \/ ~claudeCached THEN st ELSE patchClaudeSDK(st, i, transportOK)

\* Whether install() on instance i falls back to installRequireHook.
claudeInstallHooks(i) == ~cPatchedTransport[i] /\ ~claudeCached

\* ClaudeInterceptor.uninstall() on instance i; `dummy` is what the dummy
\* query does: "throws", "noTransport" or "ok".
claudeUninstallState(st, i, dummy) ==
  IF ~claudeCached \/ dummy = "throws" THEN st
  ELSE LET restored ==
             [m \in CMethods |-> IF st.om[i][m].has THEN st.om[i][m].impl ELSE st.tproto[m]]
       IN [st EXCEPT !.tproto = IF dummy = "ok" THEN restored ELSE @,
                     !.pt[i] = FALSE,
                     !.om[i] = [m \in CMethods |-> NotStored]]

\* The assignment of a ClaudeState to the variables.
SetClaude(st) ==
  /\ exportsProxy' = st.exports
  /\ tproto' = st.tproto
  /\ cOriginalMethods' = st.om
  /\ cPatchedTransport' = st.pt

\* Parameters of a query() call: the prompt and options.systemPrompt.
Params(prompt, systemPrompt) == [prompt |-> prompt, systemPrompt |-> systemPrompt]

QueryParams == {Params(<<"u">>, <<>>), Params(<<"u">>, <<"s">>)}

\* The proxied query: one Proxy layer's function.
queryInject(config, params) ==
  IF config.active /\ ~config.captureOnly /\ config.memoryContext # <<>>
  THEN [params EXCEPT !.systemPrompt = config.memoryContext]
  ELSE params

\* A value read from the SDK's exports: the export it is, whether it is a
\* function, and the instrumented functions wrapped around it.
Export(name, fn) == [name |-> name, fn |-> fn, wraps |-> 0]

\* The exports object of the SDK: query, another function and a constant.
ExportNames == {"query", "tool", "version"}

originalExports == [n \in ExportNames |-> Export(n, n # "version")]

\* A Proxy whose get handler instruments every function it hands out.
proxyGetAny(prop, value) == [value EXCEPT !.wraps = @ + 1]

\* The get handler of one Proxy layer, given target[prop].
proxyGet(prop, value) ==
  IF prop = "query" /\ value.fn THEN [value EXCEPT !.wraps = @ + 1] ELSE value

RECURSIVE exportsGet(_, _)
\* Reading export `prop` through `layers` Proxy layers around the exports.
exportsGet(layers, prop) ==
  IF layers = 0 THEN originalExports[prop]
  ELSE proxyGet(prop, exportsGet(layers - 1, prop))

RECURSIVE proxiedQuery(_, _, _, _)
\* query() read through `layers` Proxy layers around the exports.
proxiedQuery(layers, params, config, env) ==
  IF layers = 0 THEN Res(env.orig, <<params>>, 0, <<>>, <<>>)
  ELSE proxiedQuery(layers - 1, queryInject(config, params), config, env)

RECURSIVE BlockText(_)
\* The loop of extractContentFromMessage over the content blocks.
BlockText(parts) ==
  IF parts = <<>> THEN <<>>
  ELSE (IF parts[1].type = "text" /\ parts[1].text # <<>> THEN parts[1].text ELSE <<>>)
       \o BlockText(Tail(parts))

\* The text of a message whose content is a string or an array of blocks.
extractContentFromMessage(message) ==
  IF message.kind = "str" THEN message.text
  ELSE IF message.kind = "parts" THEN BlockText(message.parts)
  ELSE <<>>

\* What a transport write carries: a JSON message (type, message.content) or
\* text that does not parse (type "invalid").
WriteData ==
  {Chunk("user", <<"u">>),
   ChunkBlocks("user", <<Part("text", <<"v">>), Part("image", <<>>)>>),
   Chunk("control", <<>>), Chunk("invalid", <<>>)}

\* The request of the next exchange, written while a stream is open.
StreamingWriteData ==
  {ChunkBlocks("user", <<Part("text", <<"v">>), Part("image", <<>>)>>)}

\* A capture that stores the text of whatever is written.
captureAnyMessage(data, pending) == extractContentFromMessage(data)

\* captureUserMessage: the pendingUserMessage after the write.
captureUserMessage(data, pending) ==
  IF data.type = "user" /\ extractContentFromMessage(data) # <<>>
  THEN extractContentFromMessage(data)
  ELSE pending

RECURSIVE patchedWrite(_, _, _, _)
\* proto.write under `layers` wrapper layers: each layer captures into the
\* current config when there is one, then calls the write it stored as the
\* original; the transport's own write has outcome `orig`.
patchedWrite(layers, data, config, orig) ==
  IF layers = 0 THEN [out |-> orig, origReqs |-> <<data>>, config |-> config]
  ELSE patchedWrite(layers - 1, data,
                    IF config.active
                    THEN [config EXCEPT
                            !.pendingUserMessage = captureUserMessage(data, @)]
                    ELSE config,
                    orig)

CSources ==
  {Source(<<Chunk("assistant", <<"a">>),
            ChunkBlocks("assistant", <<Part("text", <<"b">>), Part("tool_use", <<>>)>>),
            Chunk("result", <<>>)>>, e) : e \in {0, 3}}
  \cup {Source(<<Chunk("system", <<>>)>>, 0)}

(* ====================================================================== *)
(* Stream wrappers (wrapProviderStreamingResponse, wrapMessageIterator)    *)
(* ====================================================================== *)

\* An accumulator that takes the text of a chunk of any type.
accumulateAnyType(layer, chunk) ==
  IF layer.variant = "vercel"
  THEN layer.acc \o chunk.text
  ELSE (IF chunk.type = "assistant"
        THEN layer.acc \o extractContentFromMessage(chunk) ELSE layer.acc)

\* The accumulator of a wrapper after it saw `chunk`.
accumulate(layer, chunk) ==
  IF layer.variant = "vercel"
  THEN (IF chunk.type = "text-delta" /\ chunk.text # <<>>
        THEN layer.acc \o chunk.text ELSE layer.acc)
  ELSE (IF chunk.type = "assistant"
        THEN layer.acc \o extractContentFromMessage(chunk) ELSE layer.acc)

\* A wrapper that hands on text chunks only.
vercelYieldTextOnly(chunk) == IF chunk.type = "text-delta" THEN <<chunk>> ELSE <<>>

\* `yield chunk` of wrapProviderStreamingResponse: what the wrapper hands on.
vercelYield(chunk) == <<chunk>>

\* `yield message` of wrapMessageIterator.
claudeYield(message) == <<message>>

RECURSIVE forward(_, _)
\* What reaches the caller of `chunks` pulled through the wrappers, innermost
\* first.
forward(layers, chunks) ==
  IF layers = <<>> \/ chunks = <<>> THEN chunks
  ELSE LET out == IF layers[1].variant = "vercel" THEN vercelYield(chunks[1])
                  ELSE claudeYield(chunks[1])
       IN forward(Tail(layers), out)

RECURSIVE flush(_, _)
\* The finally blocks of the wrappers, innermost first: the turns saved and
\* the pendingUserMessage of the wrappers' config object afterwards.
flush(layers, pending) ==
  IF layers = <<>> THEN [saves |-> <<>>, pending |-> pending]
  ELSE
    LET l == layers[1]
        userMessage == IF l.variant = "vercel" THEN l.user ELSE pending
        saved == IF l.variant = "vercel"
                 THEN l.acc # <<>> /\ userMessage # <<>>
                 ELSE userMessage # <<>> \/ l.acc # <<>>
        pending2 == IF l.variant = "claude" /\ saved THEN <<>> ELSE pending
        rest == flush(Tail(layers), pending2)
    IN [saves |-> (IF saved THEN <<Turn(userMessage, l.acc)>> ELSE <<>>) \o rest.saves,
        pending |-> rest.pending]

(* ====================================================================== *)
(* AgentsClient (client/agents/client.ts)                                  *)
(* ====================================================================== *)

\* Agents the gateway holds at most over a run.
MaxAgents == 3

AgentNames == {"a", "b"}

AgentIds == 1..MaxAgents

\* An agent as the gateway stores it; create() tags every agent it makes.
Agent(id, name) == [id |-> id, name |-> name]

NoId == 0

\* letta.agents.list({name, tags}): the page of agents with that name, or a
\* rejection.
agentsList(store, name, ok) ==
  [threw |-> ~ok,
   items |-> IF ok THEN SelectSeq(store, LAMBDA a : a.name = name) ELSE <<>>]

\* _retrieveId(agent): the id of the first agent listed, null when the page
\* is empty or the listing failed.
retrieveId(store, name, ok) ==
  LET page == agentsList(store, name, ok)
  IN [threw |-> FALSE,
      id |-> IF ~page.threw /\ page.items # <<>> THEN page.items[1].id ELSE NoId]

\* letta.agents.delete(agentId).
gatewayDelete(store, id) == SelectSeq(store, LAMBDA a : a.id # id)

\* delete(agent): what it returns ("true", "false", or "threw" for a
\* rejection), the gateway deletes it issued, and the gateway afterwards.
delete(store, name, listOK, deleteOK) ==
  LET found == retrieveId(store, name, listOK)
  IN IF found.threw
     THEN [out |-> "threw", deletes |-> <<>>, store |-> store]
     ELSE IF found.id # NoId
     THEN [out |-> IF deleteOK THEN "true" ELSE "threw",
           deletes |-> <<found.id>>,
           store |-> IF deleteOK THEN gatewayDelete(store, found.id) ELSE store]
     ELSE [out |-> "false", deletes |-> <<>>, store |-> store]

\* A create() that lets a failed group modification reach its caller.
catchModifyNot(modifyOK) == modifyOK

\* try { await groups.modify(...) } catch { }: whether create() goes on
\* after the modification.
catchModify(modifyOK) == TRUE

\* create({agent: name}): what it returns ("agent" with the created agent's
\* id, or "threw"), the group modifications it attempted, and the gateway
\* afterwards. `id` is the id the gateway gives the agent, `hasGroup` whether
\* the created agent carries multi_agent_group.id.
create(store, name, id, createOK, hasGroup, modifyOK) ==
  IF ~createOK
  THEN [out |-> "threw", agentId |-> NoId, modifies |-> 0, store |-> store]
  ELSE LET created == Append(store, Agent(id, name))
       IN IF hasGroup /\ ~catchModify(modifyOK)
          THEN [out |-> "threw", agentId |-> NoId, modifies |-> 1, store |-> created]
          ELSE [out |-> "agent", agentId |-> id,
                modifies |-> IF hasGroup THEN 1 ELSE 0, store |-> created]

NoCreate ==
  [called |-> FALSE, name |-> "a", createOK |-> FALSE, hasGroup |-> FALSE,
   modifyOK |-> FALSE, out |-> "threw", agentId |-> NoId, modifies |-> 0]

NoDelete ==
  [called |-> FALSE, name |-> "a", existed |-> FALSE, removed |-> FALSE,
   out |-> "false", deletes |-> <<>>]

(* ====================================================================== *)
(* Actions                                                                 *)
(* ====================================================================== *)

scopeVars == <<currentConfig, hist>>

gatewayVars == <<agents, lastDelete, lastCreate>>

envVars == <<vercelPresent, claudePresent, gatewayVars>>

vercelVars == <<proto, vOriginalMethods, vPatchedClasses, vConstructed>>

claudePatchVars == <<exportsProxy, tproto, cOriginalMethods, cPatchedTransport>>

claudeVars == <<claudeCached, requireHooks, claudePatchVars, cConstructed>>

regVars == <<interceptorClasses, installedInterceptors>>

obsVars == <<last, stream>>

vars == <<scopeVars, envVars, vercelVars, claudeVars, regVars, obsVars>>

Max(a, b) == IF a >= b THEN a ELSE b

\* The process is live: no call is stuck in an endless chain of wrappers.
Live == last.res.out.kind # "hang"

\* No observation is held: the last call and its stream have been dropped.
Quiet == last.surface = "none" /\ stream.state = "none"

\* An operation starts when the process is live and the caller holds no result.
Idle == Live /\ Quiet

\* learning(): entry into a scoped unit of work.
Enter(config) ==
  /\ Idle
  /\ ~currentConfig.active
  /\ currentConfig' = config
  /\ hist' = IF hist = "exited" THEN "succeeded" ELSE hist
  /\ UNCHANGED <<envVars, vercelVars, claudeVars, regVars, obsVars>>

\* The logical flows of the process: the one that runs the units of work,
\* and one that never enters a scope.
Flows == {"unit", "other"}

\* getCurrentConfig() called from `flow`: the slot is process-wide, so every
\* flow reads the same configuration.
getCurrentConfig(flow) == currentConfig

\* How the unit of work of a scope settles: it returns or it fails.
UnitOutcomes == {Returned(RespEmpty), Raised("UnitError")}

\* A learning() that restores the slot only when the unit of work returned.
learningNoFinally(before, unit) ==
  [slot |-> IF unit.kind = "err" THEN currentConfig ELSE before, out |-> unit]

\* learning() once the unit of work settled as `unit`: the slot holds what it
\* held before entry, and the unit's result or error goes to the caller.
learning(before, unit) == [slot |-> before, out |-> unit]

\* learning(): exit of the scoped unit of work, which settled as `unit`; the
\* slot is restored. A stream whose wrappers closed over the config object
\* keeps the object.
Exit(unit) ==
  /\ Live
  /\ Quiet \/ stream.state # "none"
  /\ currentConfig.active
  /\ currentConfig' = learning(NoConfig, unit).slot
  /\ hist' = IF hist = "succeeded" THEN "exited" ELSE hist
  /\ stream' = IF stream.cfgAttached
               THEN [stream EXCEPT !.cfgAttached = FALSE,
                                   !.cfgPending = currentConfig.pendingUserMessage]
               ELSE stream
  /\ UNCHANGED <<last, envVars, vercelVars, claudeVars, regVars>>

\* new VercelInterceptor().install(), or install() again on an instance.
VercelInstall(i, reachable) ==
  /\ Idle
  /\ vercelPresent
  /\ i <= vConstructed + 1
  /\ vConstructed' = Max(vConstructed, i)
  /\ vercelInstallBody(i, reachable)
  /\ UNCHANGED <<scopeVars, envVars, claudeVars, regVars, obsVars>>

\* uninstall() on a constructed VercelInterceptor.
VercelUninstall(i) ==
  /\ Idle
  /\ i <= vConstructed
  /\ vercelUninstallBody({i})
  /\ UNCHANGED <<vConstructed, scopeVars, envVars, claudeVars, regVars, obsVars>>

\* The history of scoped calls after a call with outcome `out`.
histAfter(out) ==
  IF currentConfig.active /\ out.kind = "ret" /\ hist = "fresh" THEN "succeeded" ELSE hist

\* A caller invokes model.doGenerate(options).
DoGenerate(options, env) ==
  /\ Idle
  /\ vercelPresent
  /\ LET res == invoke(proto["doGenerate"], "doGenerate", options,
                       getCurrentConfig("unit"), env, MaxInst + 1)
     IN /\ last' = Observed("doGenerate", options, env, res)
        /\ hist' = histAfter(res.out)
  /\ stream' = NoStream
  /\ UNCHANGED <<currentConfig, envVars, vercelVars, claudeVars, regVars>>

\* A caller invokes model.doStream(options).
DoStream(options, env) ==
  /\ Idle
  /\ vercelPresent
  /\ LET res == invoke(proto["doStream"], "doStream", options,
                       getCurrentConfig("unit"), env, MaxInst + 1)
     IN /\ last' = Observed("doStream", options, env, res)
        /\ hist' = histAfter(res.out)
        /\ stream' = IF res.out.kind = "ret"
                     THEN NewStream(res.out.resp, res.layers, FALSE) ELSE NoStream
  /\ UNCHANGED <<currentConfig, envVars, vercelVars, claudeVars, regVars>>

\* The pendingUserMessage of the config object the stream's wrappers hold.
streamPending ==
  IF stream.cfgAttached THEN currentConfig.pendingUserMessage ELSE stream.cfgPending

\* The stream ends in `state`: the wrappers' finally blocks run and issue
\* their saves without awaiting them. `unhandled`: a save was issued whose
\* rejection, should the gateway reject it, nobody handles.
finishStream(state) ==
  LET f == flush(stream.layers, streamPending)
  IN /\ stream' = [stream EXCEPT !.state = state, !.started = TRUE,
                                 !.saves = @ \o f.saves,
                                 !.unhandled = /\ f.saves # <<>>
                                               /\ \E sv \in SettledSaves : catchSave(sv) = "fail",
                                 !.cfgPending = IF stream.cfgAttached THEN @ ELSE f.pending]
     /\ currentConfig' = IF stream.cfgAttached
                         THEN [currentConfig EXCEPT !.pendingUserMessage = f.pending]
                         ELSE currentConfig

\* The caller pulls the next element of the stream.
StreamNext ==
  /\ Live
  /\ stream.state = "open"
  /\ LET n == stream.pos + 1
     IN IF stream.source.errAt = n THEN finishStream("errored")
        ELSE IF n > Len(stream.source.chunks) THEN finishStream("done")
        ELSE LET chunk == stream.source.chunks[n]
             IN /\ stream' =
                     [stream EXCEPT
                        !.pos = n, !.started = TRUE,
                        !.layers = [k \in 1..Len(@) |->
                                      [@[k] EXCEPT !.acc = accumulate(stream.layers[k], chunk)]],
                        !.delivered = @ \o forward(stream.layers, <<chunk>>)]
                /\ UNCHANGED currentConfig
  /\ UNCHANGED <<hist, last, envVars, vercelVars, claudeVars, regVars>>

\* The caller abandons the stream (break out of for-await, or return());
\* generators whose body never started run no finally block.
StreamReturn ==
  /\ Live
  /\ stream.state = "open"
  /\ IF stream.started THEN finishStream("returned")
     ELSE /\ stream' = [stream EXCEPT !.state = "returned"]
          /\ UNCHANGED currentConfig
  /\ UNCHANGED <<hist, last, envVars, vercelVars, claudeVars, regVars>>

\* The ClaudeInterceptor.install() step on instance i, as a state change.
claudeInstallBody(i, transportOK) ==
  /\ exportsProxy < MaxLayers
  /\ IF claudeInstallHooks(i)
     THEN /\ Len(requireHooks) < MaxLayers
          /\ requireHooks' = Append(requireHooks, i)
          /\ UNCHANGED claudePatchVars
     ELSE /\ SetClaude(claudeInstallState(ClaudeState, i, transportOK))
          /\ UNCHANGED requireHooks

\* new ClaudeInterceptor().install(), or install() again on an instance.
ClaudeInstall(i, transportOK) ==
  /\ Idle
  /\ claudePresent
  /\ i <= cConstructed + 1
  /\ cConstructed' = Max(cConstructed, i)
  /\ claudeInstallBody(i, transportOK)
  /\ UNCHANGED <<claudeCached, scopeVars, envVars, vercelVars, regVars, obsVars>>

\* uninstall() on a constructed ClaudeInterceptor.
ClaudeUninstall(i, dummy) ==
  /\ Idle
  /\ i <= cConstructed
  /\ SetClaude(claudeUninstallState(ClaudeState, i, dummy))
  /\ UNCHANGED <<claudeCached, requireHooks, cConstructed, scopeVars, envVars,
                 vercelVars, regVars, obsVars>>

\* The application loads the Claude Agent SDK through require(): the original
\* require puts it in the module cache, then the installed hooks run.
RequireSDK(transportOK, debug) ==
  /\ Idle
  /\ claudePresent
  /\ exportsProxy + Len(requireHooks) <= MaxLayers
  /\ claudeCached' = TRUE
  /\ SetClaude(runRequireHooks(ClaudeState, requireHooks, transportOK, debug))
  /\ UNCHANGED <<requireHooks, cConstructed, scopeVars, envVars, vercelVars, regVars,
                 obsVars>>

\* A caller reads query from the cached exports and calls it.
ClaudeQuery(params, orig) ==
  /\ Idle
  /\ claudeCached
  /\ LET env == Env(<<>>, FALSE, orig)
         res == proxiedQuery(exportsProxy, params, currentConfig, env)
     IN /\ last' = Observed("query", params, env, res)
        /\ hist' = histAfter(res.out)
  /\ UNCHANGED <<currentConfig, stream, envVars, vercelVars, claudeVars, regVars>>

\* The SDK writes `data` to its transport: every wrapper layer captures the
\* user message into the current config, then the original write runs.
ClaudeWrite(data, orig) ==
  /\ Idle
  /\ claudeCached
  /\ LET env == Env(<<>>, FALSE, orig)
         w == patchedWrite(tproto["write"], data, getCurrentConfig("unit"), orig)
     IN /\ last' = Observed("write", data, env, Res(w.out, w.origReqs, 0, <<>>, <<>>))
        /\ currentConfig' = w.config
  /\ UNCHANGED <<hist, stream, envVars, vercelVars, claudeVars, regVars>>

\* The SDK writes the next user message while the caller still iterates the
\* messages of the exchange before: the wrapper captures it into the config
\* the open iterator closed over.
ClaudeWriteStreaming(data) ==
  /\ Live
  /\ claudeCached
  /\ stream.state = "open"
  /\ last.surface = "readMessages"
  /\ stream.cfgAttached
  /\ currentConfig.active
  /\ tproto["write"] > 0
  /\ currentConfig' =
       [currentConfig EXCEPT !.pendingUserMessage = captureUserMessage(data, @)]
  /\ UNCHANGED <<hist, last, stream, envVars, vercelVars, claudeVars, regVars>>

\* The SDK reads its transport's messages: every wrapper layer wraps the
\* iterator when a config is current.
ClaudeReadMessages(source) ==
  /\ Idle
  /\ claudeCached
  /\ LET wrapped == currentConfig.active /\ tproto["readMessages"] > 0
         layers == IF wrapped
                   THEN [k \in 1..tproto["readMessages"] |->
                           Layer("claude", currentConfig.pendingUserMessage)]
                   ELSE <<>>
         env == Env(<<>>, FALSE, Returned(source))
     IN /\ last' = Observed("readMessages", source, env,
                            Res(Returned(source), <<source>>, 0, <<>>, layers))
        /\ stream' = NewStream(source, layers, wrapped)
  /\ UNCHANGED <<currentConfig, hist, envVars, vercelVars, claudeVars, regVars>>

(* ------------------------------------------------------------- registry *)

Variants == {"vercel", "claude"}

Registered(v) == \E k \in 1..Len(interceptorClasses) : interceptorClasses[k] = v

\* registerInterceptor(interceptorClass)
RegisterInterceptor(v) ==
  /\ Idle
  /\ ~Registered(v)
  /\ interceptorClasses' = Append(interceptorClasses, v)
  /\ UNCHANGED <<installedInterceptors, scopeVars, envVars, vercelVars, claudeVars,
                 obsVars>>

\* interceptor.isAvailable() of a variant.
isAvailable(v) == IF v = "vercel" THEN vercelPresent ELSE TRUE

RECURSIVE activated(_, _, _)
\* The instances install() pushes, in registration order.
activated(classes, iv, ic) ==
  IF classes = <<>> THEN <<>>
  ELSE (IF isAvailable(classes[1])
        THEN <<[variant |-> classes[1],
                inst |-> IF classes[1] = "vercel" THEN iv ELSE ic]>>
        ELSE <<>>)
       \o activated(Tail(classes), iv, ic)

\* install() of the registry: a new instance of every registered variant,
\* installed when available. ClaudeInterceptor.isAvailable() tries to
\* require the SDK: when that works (`requirable`) the SDK is loaded, through
\* the hooks installed so far, before install() runs.
RegistryInstall(reachable, transportOK, requirable, debug) ==
  /\ Idle
  /\ interceptorClasses # <<>>
  /\ LET iv == vConstructed + 1
         ic == cConstructed + 1
         loads == claudePresent /\ ~claudeCached /\ requirable
         st0 == IF loads
                THEN runRequireHooks(ClaudeState, requireHooks, transportOK, debug)
                ELSE ClaudeState
     IN /\ IF Registered("vercel") /\ isAvailable("vercel")
           THEN /\ iv <= MaxInst
                /\ vConstructed' = iv
                /\ vercelInstallBody(iv, reachable)
           ELSE UNCHANGED vercelVars
        /\ IF Registered("claude")
           THEN /\ ic <= MaxInst
                /\ cConstructed' = ic
                /\ claudeCached' = (claudeCached \/ loads)
                /\ IF claudeCached \/ loads
                   THEN /\ exportsProxy + (IF loads THEN Len(requireHooks) ELSE 0) < MaxLayers
                        /\ SetClaude(patchClaudeSDK(st0, ic, transportOK))
                        /\ UNCHANGED requireHooks
                   ELSE /\ Len(requireHooks) < MaxLayers
                        /\ requireHooks' = Append(requireHooks, ic)
                        /\ UNCHANGED claudePatchVars
           ELSE UNCHANGED claudeVars
        /\ installedInterceptors' =
             installedInterceptors \o activated(interceptorClasses, iv, ic)
  /\ UNCHANGED <<interceptorClasses, scopeVars, envVars, obsVars>>

\* What install() sees of a registered class: its provider name, what its
\* isAvailable() does and what its install() does.
Class(provider, avail, inst) == [provider |-> provider, avail |-> avail, install |-> inst]

\* The two classes of this file as install() sees them: neither
\* isAvailable() nor install() lets an error escape.
Descriptor(v) == Class(v, IF isAvailable(v) THEN "yes" ELSE "no", "ok")

\* A class of the base contract registered by the application.
CustomClasses ==
  {Class("custom", a, i) : a \in {"yes", "no", "throws"}, i \in {"ok", "throws"}}

RECURSIVE installEach(_)
\* The loop of install() over the registered classes: the providers whose
\* availability was checked, the providers collected in `installed`, and
\* whether an error left install().
installEach(classes) ==
  IF classes = <<>> THEN [threw |-> FALSE, attempted |-> <<>>, installed |-> <<>>]
  ELSE
    LET c == classes[1]
    IN IF c.avail = "throws"
       THEN [threw |-> TRUE, attempted |-> <<c.provider>>, installed |-> <<>>]
       ELSE
         LET rest == installEach(Tail(classes))
             here == IF c.avail = "yes" /\ c.install = "ok" THEN <<c.provider>> ELSE <<>>
         IN [threw |-> rest.threw,
             attempted |-> <<c.provider>> \o rest.attempted,
             installed |-> here \o rest.installed]

RECURSIVE claudeUninstallEach(_, _, _)
\* uninstall() on the Claude instances of `list`, in order.
claudeUninstallEach(st, list, dummy) ==
  IF list = <<>> THEN st
  ELSE claudeUninstallEach(
         IF list[1].variant = "claude"
         THEN claudeUninstallState(st, list[1].inst, dummy) ELSE st,
         Tail(list), dummy)

\* A loop that lets the error of an uninstall() escape.
catchUninstallNot(thrown) == thrown

\* try { interceptor.uninstall() } catch {}: whether an error thrown by the
\* uninstall() leaves the loop.
catchUninstall(thrown) == FALSE

RECURSIVE uninstallEach(_, _)
\* The loop of uninstallAll() over `list`, of which the instances in
\* `throwing` raise from uninstall(): the instances whose uninstall() was
\* called, in order, and whether an error left the loop.
uninstallEach(list, throwing) ==
  IF list = <<>> THEN [called |-> <<>>, threw |-> FALSE]
  ELSE IF catchUninstall(list[1] \in throwing)
  THEN [called |-> <<list[1]>>, threw |-> TRUE]
  ELSE LET rest == uninstallEach(Tail(list), throwing)
       IN [called |-> <<list[1]>> \o rest.called, threw |-> rest.threw]

\* uninstallAll() on the active list `list`: the loop, then
\* installedInterceptors.length = 0 unless an error left the loop.
uninstallAll(list, throwing) ==
  LET r == uninstallEach(list, throwing)
  IN [called |-> r.called, threw |-> r.threw,
      active |-> IF r.threw THEN list ELSE <<>>]

\* uninstallAll() of the registry; the uninstall() of the two classes of
\* this file raises nothing.
UninstallAll(dummy) ==
  /\ Idle
  /\ installedInterceptors # <<>>
  /\ LET r == uninstallAll(installedInterceptors, {})
     IN /\ vercelUninstallBody({r.called[k].inst :
              k \in {j \in 1..Len(r.called) : r.called[j].variant = "vercel"}})
        /\ SetClaude(claudeUninstallEach(ClaudeState, r.called, dummy))
        /\ installedInterceptors' = r.active
  /\ UNCHANGED <<vConstructed, claudeCached, requireHooks, cConstructed,
                 interceptorClasses, scopeVars, envVars, obsVars>>

(* ====================================================================== *)
(* Specification                                                           *)
(* ====================================================================== *)

Init ==
  /\ currentConfig = NoConfig
  /\ hist = "fresh"
  /\ vercelPresent \in BOOLEAN
  /\ claudePresent = ~vercelPresent
  /\ proto = [m \in VMethods |-> Original]
  /\ vOriginalMethods = [i \in Insts |-> [m \in VMethods |-> Absent]]
  /\ vPatchedClasses = [i \in Insts |-> FALSE]
  /\ vConstructed = 0
  /\ claudeCached = FALSE
  /\ exportsProxy = 0
  /\ requireHooks = <<>>
  /\ tproto = [m \in CMethods |-> 0]
  /\ cOriginalMethods = [i \in Insts |-> [m \in CMethods |-> NotStored]]
  /\ cPatchedTransport = [i \in Insts |-> FALSE]
  /\ cConstructed = 0
  /\ interceptorClasses = <<>>
  /\ installedInterceptors = <<>>
  /\ agents = <<>>
  /\ lastDelete = NoDelete
  /\ lastCreate = NoCreate
  /\ last = NoCall
  /\ stream = NoStream

\* The caller drops the result of its last call and the stream it returned.
Forget ==
  /\ Live
  /\ ~Quiet
  /\ last' = NoCall
  /\ stream' = NoStream
  /\ UNCHANGED <<scopeVars, envVars, vercelVars, claudeVars, regVars>>

frameAgents == <<scopeVars, vercelPresent, claudePresent, vercelVars, claudeVars, regVars,
                 obsVars>>

\* create({agent: name}), with the gateway's create and group modification
\* succeeding or failing; the gateway gives the agent its lowest free id.
AgentsCreate(name, createOK, hasGroup, modifyOK) ==
  /\ Len(agents) < MaxAgents
  /\ \E id \in AgentIds :
       /\ \A i \in 1..Len(agents) : agents[i].id # id
       /\ \A j \in AgentIds : (\A i \in 1..Len(agents) : agents[i].id # j) => id <= j
       /\ LET r == create(agents, name, id, createOK, hasGroup, modifyOK)
          IN /\ agents' = r.store
             /\ lastCreate' = [called |-> TRUE, name |-> name, createOK |-> createOK,
                               hasGroup |-> hasGroup, modifyOK |-> modifyOK,
                               out |-> r.out, agentId |-> r.agentId,
                               modifies |-> r.modifies]
  /\ UNCHANGED <<lastDelete, frameAgents>>

\* delete(name), with the gateway's list and delete succeeding or failing.
AgentsDelete(name, listOK, deleteOK) ==
  LET r == delete(agents, name, listOK, deleteOK)
  IN /\ agents' = r.store
     /\ lastDelete' = [called |-> TRUE, name |-> name,
                       existed |-> \E i \in 1..Len(agents) : agents[i].name = name,
                       removed |-> Len(r.store) < Len(agents),
                       out |-> r.out, deletes |-> r.deletes]
     /\ UNCHANGED <<lastCreate, frameAgents>>

NextAgents ==
  \/ \E n \in AgentNames, createOK, hasGroup, modifyOK \in BOOLEAN :
       AgentsCreate(n, createOK, hasGroup, modifyOK)
  \/ \E n \in AgentNames, listOK, deleteOK \in BOOLEAN : AgentsDelete(n, listOK, deleteOK)

\* The agents client alone, against a gateway whose calls may fail.
AgentsSpec == Init /\ [][NextAgents]_vars

\* What retrieval does during a call: it fails, or returns a memory value.
Retrievals == {Env(m, FALSE, Raised("")) : m \in MemValues} \cup {Env(<<>>, TRUE, Raised(""))}

StreamOutcomes == {Returned(src) : src \in VSources} \cup {Raised("ProviderError")}

SimpleOutcomes == {Returned(RespEmpty), Raised("ProviderError")}

Next ==
  \/ \E c \in Configs : Enter(c)
  \/ \E u \in UnitOutcomes : Exit(u)
  \/ \E i \in Insts, reachable \in BOOLEAN : VercelInstall(i, reachable)
  \/ \E i \in Insts : VercelUninstall(i)
  \/ \E o \in Requests, e \in Retrievals, r \in OrigOutcomes, sv \in SaveOutcomes :
       DoGenerate(o, [e EXCEPT !.orig = r, !.save = sv])
  \/ \E o \in Requests, e \in Retrievals, r \in StreamOutcomes :
       DoStream(o, [e EXCEPT !.orig = r])
  \/ StreamNext
  \/ StreamReturn
  \/ Forget
  \/ \E i \in Insts, ok \in BOOLEAN : ClaudeInstall(i, ok)
  \/ \E i \in Insts, d \in {"throws", "noTransport", "ok"} : ClaudeUninstall(i, d)
  \/ \E ok, debug \in BOOLEAN : RequireSDK(ok, debug)
  \/ \E p \in QueryParams, r \in SimpleOutcomes : ClaudeQuery(p, r)
  \/ \E d \in WriteData, r \in SimpleOutcomes : ClaudeWrite(d, r)
  \/ \E src \in CSources : ClaudeReadMessages(src)
  \/ \E d \in StreamingWriteData : ClaudeWriteStreaming(d)

Spec == Init /\ [][Next]_vars

\* The application reaches the interceptors through the registry only.
NextRegistry ==
  \/ \E v \in Variants : RegisterInterceptor(v)
  \/ \E reachable, ok, requirable, debug \in BOOLEAN :
       RegistryInstall(reachable, ok, requirable, debug)
  \/ \E d \in {"throws", "noTransport", "ok"} : UninstallAll(d)
  \/ \E c \in Configs : Enter(c)
  \/ \E u \in UnitOutcomes : Exit(u)
  \/ \E o \in Requests, e \in Retrievals, r \in OrigOutcomes, sv \in SaveOutcomes :
       DoGenerate(o, [e EXCEPT !.orig = r, !.save = sv])
  \/ \E o \in Requests, e \in Retrievals, r \in StreamOutcomes :
       DoStream(o, [e EXCEPT !.orig = r])
  \/ StreamNext
  \/ StreamReturn
  \/ Forget
  \/ \E ok, debug \in BOOLEAN : RequireSDK(ok, debug)
  \/ \E p \in QueryParams, r \in SimpleOutcomes : ClaudeQuery(p, r)
  \/ \E d \in WriteData, r \in SimpleOutcomes : ClaudeWrite(d, r)
  \/ \E src \in CSources : ClaudeReadMessages(src)

RegistrySpec == Init /\ [][NextRegistry]_vars

\* The registry's bookkeeping alone: registration, install() and
\* uninstallAll(), with no provider call in between.
NextBookkeeping ==
  \/ \E v \in Variants : RegisterInterceptor(v)
  \/ \E reachable, transportOK, requirable, debug \in BOOLEAN :
       RegistryInstall(reachable, transportOK, requirable, debug)
  \/ \E d \in {"throws", "noTransport", "ok"} : UninstallAll(d)

BookkeepingSpec == Init /\ [][NextBookkeeping]_vars

(* ====================================================================== *)
(* Properties                                                              *)
(* ====================================================================== *)

\* A call to a patched surface has been observed.
Called == last.surface # "none"

\* The last call went to a surface that carries an interception layer.
Patched ==
  \/ last.surface \in VMethods /\ proto[last.surface].k = "wrap"
  \/ last.surface = "query" /\ exportsProxy > 0
  \/ last.surface \in CMethods /\ tproto[last.surface] > 0

\* Every request handed to the provider's implementation is the caller's own.
Unmodified == \A k \in 1..Len(last.res.origReqs) : last.res.origReqs[k] = last.options

\* The turns persisted for the last call: by the call and by its stream.
Persisted == last.res.saves \o stream.saves

\* C1. Transparency when inactive: a call to a patched surface made while no
\* configuration is current invokes the original implementation exactly once
\* with the caller's arguments, returns its outcome verbatim, issues no
\* memory retrieval, wraps nothing and saves no turn.
C1_TransparentWhenInactive ==
  (Called /\ Patched /\ ~last.config.active) =>
     /\ last.res.origReqs = <<last.options>>
     /\ last.res.out = last.orig
     /\ last.res.retr = 0
     /\ last.res.layers = <<>>
     /\ Persisted = <<>>

\* C2. Scope isolation: once a scope in which a call succeeded has exited,
\* every call made outside a scope persists no turn, issues no retrieval and
\* hands the provider nothing but the caller's own request.
C2_ScopeIsolation ==
  (Called /\ last.afterExit) =>
     /\ Persisted = <<>>
     /\ last.res.retr = 0
     /\ last.res.layers = <<>>
     /\ Unmodified

\* A call after such an exit reached the provider through an installed
\* wrapper while the gateway held memory for the agent.
C2_Witness ==
  /\ last.afterExit
  /\ last.surface = "doGenerate"
  /\ proto["doGenerate"].k = "wrap"
  /\ last.retrieved # <<>>
  /\ last.res.out.kind = "ret"
  /\ last.res.origReqs # <<>>

\* The last call was made in a scope, on a patched Vercel surface.
VercelInScope == last.surface \in VMethods /\ Patched /\ last.config.active

\* C3. Capture-only suppresses injection but not persistence: an in-scope
\* call with captureOnly set issues no retrieval and hands the provider the
\* caller's request only, and when the provider has a well-formed response
\* for a non-streaming call, a turn is persisted for it.
C3_CaptureOnly ==
  (Called /\ Patched /\ last.config.active /\ last.config.captureOnly) =>
     /\ last.res.retr = 0
     /\ Unmodified
     /\ (/\ last.surface = "doGenerate"
         /\ last.orig.kind = "ret"
         /\ last.orig.resp.shape # "null") => last.res.saves # <<>>

RECURSIVE NonSystem(_)
\* The messages of a prompt that are not system messages, in order.
NonSystem(prompt) ==
  IF prompt = <<>> THEN <<>>
  ELSE (IF prompt[1].role = "system" THEN <<>> ELSE <<prompt[1]>>)
       \o NonSystem(Tail(prompt))

\* `sent` is `prompt` with `memory` in its system slot, as C4 describes it.
Injected(sent, prompt, memory) ==
  /\ NonSystem(sent) = NonSystem(prompt)
  /\ IF \E k \in 1..Len(prompt) : prompt[k].role = "system"
     THEN /\ Len(sent) = Len(prompt)
          /\ \A k \in 1..Len(prompt) :
                prompt[k].role = "system" =>
                  /\ sent[k].role = "system"
                  /\ sent[k].text = memory \o <<NL, NL>> \o prompt[k].text
     ELSE sent = <<Msg("system", memory)>> \o prompt

\* C4. Memory injection: an in-scope call with captureOnly unset, a client
\* and an agent name, for which the gateway returns a non-empty memory
\* context, hands the provider a request with that context in its system
\* slot (prepended to the system message, or as a new first system message)
\* and every other message unchanged and in order.
C4_MemoryInjection ==
  (/\ VercelInScope
   /\ injectionEnabled(last.config)
   /\ last.retrieved # <<>>
   /\ last.options.hasPrompt) =>
     \A k \in 1..Len(last.res.origReqs) :
        Injected(last.res.origReqs[k].prompt, last.options.prompt, last.retrieved)

\* C5. The outcome of an in-scope non-streaming call is the outcome of the
\* provider's implementation: the same value returned, the same error raised.
C5_OutcomePreserved ==
  (last.surface = "doGenerate" /\ VercelInScope) => last.res.out = last.orig

RECURSIVE wrapperLayers(_, _, _)
\* The interception layers between `impl` and the original implementation.
wrapperLayers(impl, method, fuel) ==
  IF impl.k # "wrap" \/ fuel = 0 THEN 0
  ELSE 1 + wrapperLayers(vOriginalMethods[impl.inst][method], method, fuel - 1)

\* C6. At most one wrapper layer per target: however often install() ran,
\* on one instance or on several, each patched method carries at most one
\* interception layer.
C6_OneWrapperLayer ==
  \A m \in VMethods : wrapperLayers(proto[m], m, MaxInst + 1) <= 1

\* C7. Uninstall restores pre-patch behaviour (Vercel): when no
\* VercelInterceptor instance is installed any more, the prototype's
\* doGenerate and doStream are the original implementations.
C7_UninstallRestores ==
  (\A i \in Insts : ~vPatchedClasses[i]) => \A m \in VMethods : proto[m] = Original

\* C8. Uninstall reverses every patch (Claude): uninstall() of the only
\* ClaudeInterceptor leaves write and readMessages the originals, the cached
\* exports without Proxy, require without hook, and the bookkeeping empty.
C8_ClaudeUninstallReverses ==
  [][(cConstructed = 1 /\ \E d \in {"throws", "noTransport", "ok"} : ClaudeUninstall(1, d)) =>
       /\ \A m \in CMethods : tproto'[m] = 0
       /\ exportsProxy' = 0
       /\ requireHooks' = <<>>
       /\ \A m \in CMethods : ~cOriginalMethods'[1][m].has
       /\ ~cPatchedTransport'[1]]_vars

\* C9. Idempotent uninstall: from every state of an interceptor (never
\* installed, install failed, installed, uninstalled), uninstall() followed
\* by uninstall() leaves the bookkeeping as the first left it and the
\* provider unpatched.
C9_UninstallIdempotent ==
  /\ vConstructed = 1 =>
       LET s1 == vercelUninstallState(VercelState, {1})
           s2 == vercelUninstallState(s1, {1})
       IN s2 = s1 /\ \A m \in VMethods : s2.proto[m] = Original
  /\ cConstructed = 1 =>
       \A d \in {"throws", "noTransport", "ok"} :
          LET s1 == claudeUninstallState(ClaudeState, 1, d)
              s2 == claudeUninstallState(s1, 1, d)
          IN /\ s2 = s1
             /\ s2.exports = 0
             /\ \A m \in CMethods : s2.tproto[m] = 0

\* C10. Streaming fidelity: what the caller has pulled from an instrumented
\* stream is what the provider's stream produced up to there, element by
\* element; the stream ends where the provider's ends, and an upstream error
\* surfaces at the provider's position.
C10_StreamFidelity ==
  (stream.state # "none" /\ stream.layers # <<>>) =>
     /\ stream.delivered = SubSeq(stream.source.chunks, 1, stream.pos)
     /\ stream.state = "done" =>
          stream.pos = Len(stream.source.chunks) /\ stream.source.errAt = 0
     /\ stream.state = "errored" => stream.pos = stream.source.errAt - 1

\* An instrumented stream was consumed to its end and carried an element
\* without text between two text elements.
C10_Witness ==
  /\ stream.state = "done"
  /\ stream.layers # <<>>
  /\ Len(stream.delivered) = 3
  /\ stream.delivered[2].text = <<>>

\* The stream's iteration has ended: exhausted, failed or abandoned.
Ended == stream.state \in {"done", "errored", "returned"}

\* C11. Exactly one persisted turn per stream: once the iteration of a
\* stream wrapped by one Vercel wrapper for a request with user text has
\* begun and ended, by exhaustion, by an upstream error or by the caller
\* abandoning it, exactly one turn has been persisted for it.
C11_OneTurnPerStream ==
  (/\ Ended
   /\ stream.started
   /\ Len(stream.layers) = 1
   /\ stream.layers[1].variant = "vercel"
   /\ stream.layers[1].user # <<>>) => Len(stream.saves) = 1

\* C12. Stream turns are paired with their own request: a turn persisted
\* for a stream carries the user text of the request that created the
\* stream, also when the next request is written before the stream ended.
C12_StreamPairing ==
  (Len(stream.layers) = 1 /\ stream.layers[1].user # <<>>) =>
     \A k \in 1..Len(stream.saves) : stream.saves[k].user = stream.layers[1].user

\* The provider outcomes of `method` with a well-formed value.
WellFormedOutcomes(method) ==
  IF method = "doGenerate" THEN OrigOutcomes \ {Returned(RespNull)} ELSE StreamOutcomes

\* C13. Injection failure does not abort the call: whenever a method is
\* patched, an in-scope call whose memory retrieval fails invokes the
\* original exactly once with the caller's request and returns the
\* original's outcome.
C13_InjectionFailSoft ==
  \A m \in VMethods :
     proto[m].k = "wrap" =>
       \A o \in Requests, c \in Configs, r \in WellFormedOutcomes(m) :
          LET res == invoke(proto[m], m, o, c, Env(<<>>, TRUE, r), MaxInst + 1)
          IN res.origReqs = <<o>> /\ res.out = r

\* C14. Persistence failures never reach the caller: a non-streaming call
\* whose save is rejected by the gateway returns exactly what the
\* provider's implementation returned, and a stream that issued a save has
\* delivered every element pulled, ends as the provider's stream ends, and
\* leaves no rejection of the save unhandled.
C14_SaveFailureInvisible ==
  /\ (last.surface = "doGenerate" /\ last.save = "fail") =>
        last.res.out = last.orig
  /\ (Ended /\ stream.saves # <<>>) =>
        /\ ~stream.unhandled
        /\ stream.delivered = SubSeq(stream.source.chunks, 1, stream.pos)
        /\ stream.state = "done" =>
             stream.pos = Len(stream.source.chunks) /\ stream.source.errAt = 0

\* A non-streaming call returned its response although the save of its turn
\* was rejected.
C14_Witness ==
  /\ last.surface = "doGenerate"
  /\ last.save = "fail"
  /\ last.res.saves # <<>>
  /\ last.res.out.kind = "ret"

\* A stream was consumed to its end and a save of its turn was issued.
StreamSaved == stream.state = "done" /\ stream.saves # <<>>

\* C15. Persistence does not block the caller: a non-streaming call whose
\* save never completes still delivers to the caller what the provider's
\* implementation returned.
C15_SaveDoesNotBlock ==
  (last.surface = "doGenerate" /\ last.save = "pending") =>
     last.res.out = last.orig

\* The events of `ev` at positions before position n.
Before(ev, n) == {ev[k] : k \in 1..(n - 1)}

\* C16. Injection precedes the call: within one exchange on a patched
\* Vercel surface every retrieval of memory happens before the provider's
\* implementation is invoked, the implementation is invoked with injection
\* enabled only after a retrieval, and a save is issued only after the
\* implementation has been invoked and has returned; a stream's turn is
\* saved only for a stream the implementation returned.
C16_InjectionPrecedesCall ==
  /\ (last.surface \in VMethods /\ Patched) =>
        LET ev == last.res.ev
        IN \A n \in 1..Len(ev) :
             /\ ev[n] = "retr" => Before(ev, n) \subseteq {"retr"}
             /\ (ev[n] = "orig" /\ injectionEnabled(last.config)) => "retr" \in Before(ev, n)
             /\ ev[n] = "save" => "orig" \in Before(ev, n) /\ last.orig.kind = "ret"
  /\ (stream.saves # <<>> /\ stream.layers[1].variant = "vercel") =>
        /\ last.surface = "doStream"
        /\ last.orig.kind = "ret"
        /\ "orig" \in Before(last.res.ev, Len(last.res.ev) + 1)

\* An exchange retrieved memory, invoked the provider's implementation and
\* saved its turn.
C16_Witness ==
  /\ last.surface = "doGenerate"
  /\ last.res.ev = <<"retr", "orig", "save">>

\* C17. One persisted pair per exchange, however often the registry's
\* install() ran: an in-scope non-streaming call on a patched surface whose
\* provider returned a response persists exactly one turn, and the request
\* the provider receives is the caller's request with the memory injected at
\* most once.
C17_OnePairPerExchange ==
  (/\ last.surface = "doGenerate"
   /\ VercelInScope
   /\ last.orig.kind = "ret"
   /\ ~buildResponseThrows(last.orig.resp)) =>
     /\ Len(last.res.saves) = 1
     /\ \A k \in 1..Len(last.res.origReqs) :
           last.res.origReqs[k] \in
             {last.options, injectRetrieved(last.options, last.retrieved, FALSE)}

\* The registered classes of this file as install() sees them.
Descriptors == [k \in 1..Len(interceptorClasses) |-> Descriptor(interceptorClasses[k])]

\* The providers of the classes that are available and whose install() does
\* not raise, in registration order.
Installable(classes) ==
  LET ok == SelectSeq(classes, LAMBDA c : c.avail = "yes" /\ c.install = "ok")
  IN [k \in 1..Len(ok) |-> ok[k].provider]

\* C18. Registry install is fail-soft per variant: with any class of the
\* base contract registered before the classes registered so far, install()
\* checks every registered class, lets no error escape, and returns the
\* providers that were available and whose install() did not raise, in
\* registration order.
C18_InstallFailSoft ==
  interceptorClasses # <<>> =>
    \A c \in CustomClasses :
       LET classes == <<c>> \o Descriptors
           r == installEach(classes)
       IN /\ ~r.threw
          /\ r.attempted = [k \in 1..Len(classes) |-> classes[k].provider]
          /\ r.installed = Installable(classes)

\* The loop of install() agrees with the instances the registry activates.
InstallEachAgrees ==
  LET a == activated(interceptorClasses, 1, 1)
  IN installEach(Descriptors) =
       [threw |-> FALSE, attempted |-> interceptorClasses,
        installed |-> [k \in 1..Len(a) |-> a[k].variant]]

\* With no class whose availability check raises, install() is fail-soft.
InstallFailSoftUnlessCheckThrows ==
  \A c \in {x \in CustomClasses : x.avail # "throws"} :
     LET classes == <<c>> \o Descriptors
         r == installEach(classes)
     IN /\ ~r.threw
        /\ r.attempted = [k \in 1..Len(classes) |-> classes[k].provider]
        /\ r.installed = Installable(classes)

\* An activated instance of a class of the base contract registered by the
\* application.
CustomInstance == [variant |-> "custom", inst |-> 1]

\* C19. Registry uninstallAll: with the active instances of the registry,
\* each of them listed once, and one more activated instance whose
\* uninstall() may raise, uninstallAll() calls uninstall() once on every
\* active instance, in order, lets no error escape and leaves the active
\* list empty; a second uninstallAll() calls no uninstall().
C19_UninstallAll ==
  /\ \A j, k \in 1..Len(installedInterceptors) :
        installedInterceptors[j] = installedInterceptors[k] => j = k
  /\ \A thrown \in BOOLEAN, n \in 0..Len(installedInterceptors) :
        LET list == SubSeq(installedInterceptors, 1, n) \o <<CustomInstance>>
                    \o SubSeq(installedInterceptors, n + 1, Len(installedInterceptors))
            throwing == IF thrown THEN {CustomInstance} ELSE {}
            r == uninstallAll(list, throwing)
            again == uninstallAll(r.active, throwing)
        IN /\ r.called = list
           /\ ~r.threw
           /\ r.active = <<>>
           /\ again.called = <<>>
           /\ ~again.threw

\* Two install() calls of the registry activated instances, and
\* uninstallAll() has emptied the active list.
C19_Witness ==
  /\ installedInterceptors = <<>>
  /\ Registered("claude")
  /\ cConstructed >= 2

\* C20. An absent provider is treated as unavailable: for a class whose
\* provider library is neither loaded nor loadable, the instances the
\* registry's install() constructed report themselves unavailable, and
\* install() has activated none of them.
C20_AbsentIsUnavailable ==
  /\ ~vercelPresent =>
        /\ vConstructed > 0 => ~isAvailable("vercel")
        /\ \A k \in 1..Len(installedInterceptors) :
              installedInterceptors[k].variant # "vercel"
  /\ ~claudePresent =>
        /\ cConstructed > 0 => ~isAvailable("claude")
        /\ \A k \in 1..Len(installedInterceptors) :
              installedInterceptors[k].variant # "claude"

\* The statement of C20 for the Vercel class alone.
VercelAbsentIsUnavailable ==
  ~vercelPresent =>
     /\ ~isAvailable("vercel")
     /\ \A k \in 1..Len(installedInterceptors) :
           installedInterceptors[k].variant # "vercel"

\* The hooks on the module loader installed by ClaudeInterceptor instance i.
hooksOf(i) == Cardinality({k \in 1..Len(requireHooks) : requireHooks[k] = i})

\* C21. Lazy-load hooking patches once: while one ClaudeInterceptor is the
\* only one constructed, whatever install() calls, loads of the SDK and
\* uninstall() calls happened, the module loader carries at most one hook of
\* it, the SDK's exports are behind at most one Proxy layer, and write and
\* readMessages are wrapped at most once.
C21_LazyPatchOnce ==
  cConstructed = 1 =>
    /\ hooksOf(1) <= 1
    /\ exportsProxy <= 1
    /\ \A m \in CMethods : tproto[m] <= 1

\* C22. Module-export proxying leaves other exports untouched: once the
\* SDK's exports are proxied, reading an export other than query yields the
\* value of the original exports object, reading query yields an
\* instrumented function, and a call of it calls the original query once,
\* with the caller's prompt, and returns what the original returned.
C22_OtherExportsUntouched ==
  exportsProxy > 0 =>
    /\ \A n \in ExportNames \ {"query"} :
          exportsGet(exportsProxy, n) = originalExports[n]
    /\ exportsGet(exportsProxy, "query").wraps = exportsProxy
    /\ last.surface = "query" =>
          /\ Len(last.res.origReqs) = 1
          /\ last.res.origReqs[1].prompt = last.options.prompt
          /\ last.res.out = last.orig

\* An in-scope query with memory to inject went through the proxied exports
\* and the original query returned.
C22_Witness ==
  /\ exportsProxy = 1
  /\ last.surface = "query"
  /\ last.config.active
  /\ last.config.memoryContext # <<>>
  /\ last.res.out.kind = "ret"

\* C23. An existing system slot is preserved on injection (Claude): an
\* in-scope query through the proxied exports with captureOnly unset and a
\* memory context hands the original query the caller's prompt and a
\* systemPrompt that is the memory context followed by the caller's
\* systemPrompt when the caller gave one, and the memory context otherwise.
C23_SystemSlotPreserved ==
  (/\ last.surface = "query"
   /\ exportsProxy > 0
   /\ last.config.active
   /\ ~last.config.captureOnly
   /\ last.config.memoryContext # <<>>) =>
     \A k \in 1..Len(last.res.origReqs) :
        /\ last.res.origReqs[k].prompt = last.options.prompt
        /\ last.res.origReqs[k].systemPrompt =
             IF last.options.systemPrompt # <<>>
             THEN last.config.memoryContext \o <<NL, NL>> \o last.options.systemPrompt
             ELSE last.config.memoryContext

\* C24. Empty turns are not persisted: no turn persisted for an exchange, by
\* a non-streaming call or at the end of a stream, has both an empty user
\* text and an empty assistant text.
C24_NoEmptyTurn ==
  \A k \in 1..Len(Persisted) :
     Persisted[k].user # <<>> \/ Persisted[k].assistant # <<>>

\* The statement of C24 for the turns persisted at the end of a stream.
NoEmptyStreamTurn ==
  \A k \in 1..Len(stream.saves) :
     stream.saves[k].user # <<>> \/ stream.saves[k].assistant # <<>>

\* C25. The normalizer never throws: whenever an in-scope non-streaming
\* call on a patched surface reached the provider and the provider returned,
\* buildResponseDictFromGenerate, applied to what the provider returned,
\* raises no error.
C25_NormalizerNeverThrows ==
  (/\ last.surface = "doGenerate"
   /\ VercelInScope
   /\ last.res.origReqs # <<>>
   /\ last.orig.kind = "ret") => ~buildResponseThrows(last.orig.resp)

C27_NoLeakBetweenFlows ==
  currentConfig.active =>
    /\ \A m \in VMethods :
          proto[m].k = "wrap" =>
            \A o \in Requests, r \in WellFormedOutcomes(m) :
               LET res == invoke(proto[m], m, o, getCurrentConfig("other"),
                                 Env(<<"m">>, FALSE, r), MaxInst + 1)
               IN res.saves = <<>> /\ res.retr = 0 /\ res.layers = <<>>
    /\ tproto["write"] > 0 =>
          \A d \in WriteData :
             (IF getCurrentConfig("other").active
              THEN captureUserMessage(d, currentConfig.pendingUserMessage)
              ELSE currentConfig.pendingUserMessage) = currentConfig.pendingUserMessage

C29_DeleteReportsExistence ==
  lastDelete.called =>
    /\ (lastDelete.out = "true") <=>
          (lastDelete.existed /\ lastDelete.removed /\ Len(lastDelete.deletes) = 1)
    /\ (lastDelete.out = "false") <=> ~lastDelete.existed
    /\ (lastDelete.out = "false") => lastDelete.deletes = <<>>

\* delete(name) tells a caller that the agent is there or not whenever the
\* gateway's listing answered.
DeleteReportsWhatWasListed ==
  \A n \in AgentNames, deleteOK \in BOOLEAN :
     LET r == delete(agents, n, TRUE, deleteOK)
         existed == \E i \in 1..Len(agents) : agents[i].name = n
     IN /\ (r.out = "false") <=> ~existed
        /\ (r.out = "true") <=> (existed /\ deleteOK)
        /\ Len(r.deletes) = (IF existed THEN 1 ELSE 0)

RECURSIVE textDeltas(_)
\* The textDelta of the 'text-delta' elements of `chunks`, in order.
textDeltas(chunks) ==
  IF chunks = <<>> THEN <<>>
  ELSE (IF chunks[1].type = "text-delta" THEN chunks[1].text ELSE <<>>)
         \o textDeltas(Tail(chunks))

\* Elements of other types that carry text of their own.
OtherChunks == {Chunk("reasoning", <<"r">>), Chunk("finish", <<>>)}

\* The stream the caller holds is a Vercel instrumented stream.
VercelStream ==
  /\ stream.state # "none"
  /\ stream.layers # <<>>
  /\ \A k \in 1..Len(stream.layers) : stream.layers[k].variant = "vercel"

\* C30. Persisted stream text is what the caller saw: each wrapper of a
\* Vercel instrumented stream holds the concatenation of the textDelta of the
\* 'text-delta' elements forwarded so far, an element of another type adds
\* nothing to it, a new stream starts from the empty text, and every turn the
\* stream persists when it ends (exhausted, abandoned or failed) carries that
\* text as the assistant content.
C30_PersistedTextIsForwardedText ==
  VercelStream =>
    /\ \A k \in 1..Len(stream.layers) :
          /\ stream.layers[k].acc = textDeltas(stream.delivered)
          /\ \A c \in OtherChunks :
                accumulate(stream.layers[k], c) = stream.layers[k].acc
    /\ \A t \in 1..Len(stream.saves) :
          /\ Ended
          /\ stream.saves[t].assistant = textDeltas(stream.delivered)

\* A Vercel instrumented stream failed after it had forwarded a text element
\* and an element without text, and persisted the text forwarded until then.
C30_Witness ==
  /\ VercelStream
  /\ stream.state = "errored"
  /\ Len(stream.delivered) = 2
  /\ stream.saves # <<>>
  /\ stream.saves[1].assistant = <<"a">>

\* The wrapper a call to `method` reaches belongs to an instance whose
\* install() is in effect (its patchedClasses holds the model class).
OnInstalledWrapper(method) ==
  /\ proto[method].k = "wrap"
  /\ vPatchedClasses[proto[method].inst]

\* C31. Install after uninstall still works: with one VercelInterceptor
\* instance, installed, uninstalled and installed again in any order, a call
\* to doGenerate/doStream that reaches its wrapper while it is installed
\* terminates and invokes the provider's own implementation exactly once; the
\* wrapper never calls itself as its own original. (A call whose save the gateway never
\* settles is left aside: it waits for the gateway, not for itself.)
C31_ReinstallStillWorks ==
  (vConstructed = 1 /\ last.surface \in VMethods /\ OnInstalledWrapper(last.surface)) =>
     /\ last.save # "pending" => last.res.out.kind # "hang"
     /\ last.res.out # Raised("RangeError")
     /\ Len(last.res.origReqs) = 1
     /\ \A m \in VMethods : vOriginalMethods[1][m] # Wrapper(1)

\* Well-formed responses beyond those the providers of the model return: text
\* and content together, an empty text beside content, parts of other types
\* that carry text, a text part without text, an empty content array.
NormalizerInputs ==
  (Responses \ {RespNull}) \cup
  {Response("both", <<"t">>, <<Part("text", <<"a">>)>>),
   Response("both", <<>>, <<Part("text", <<"a">>), Part("reasoning", <<"r">>),
                           Part("text", <<>>), Part("text", <<"b">>)>>),
   Response("content", <<>>, <<Part("reasoning", <<"r">>)>>),
   Response("content", <<>>, <<>>),
   Response("text", <<>>, <<>>)}

\* The text of the parts of type 'text' of a content array, concatenated.
textOfTextParts(parts) == Join(TextParts(parts), <<>>)

\* The normalizer follows the three-way rule on every well-formed response.
NormalizerFollowsRule ==
  \A r \in NormalizerInputs :
     /\ ~buildResponseThrows(r)
     /\ responseDict(r).role = "assistant"
     /\ responseDict(r).content =
          (IF carriesText(r) /\ r.text # <<>> THEN r.text
           ELSE IF carriesContent(r) THEN textOfTextParts(r.parts)
           ELSE <<>>)

\* C32. Response normalization: for every well-formed response the
\* normalizer returns role 'assistant' and, as content, response.text when
\* that is a non-empty string, otherwise the concatenation of the text of the
\* parts of response.content of type 'text', otherwise the empty string; the
\* turn an in-scope doGenerate persists carries that content.
C32_ResponseNormalization ==
  /\ NormalizerFollowsRule
  /\ (/\ last.surface = "doGenerate"
      /\ last.orig.kind = "ret"
      /\ last.orig.resp \in NormalizerInputs) =>
       \A t \in 1..Len(last.res.saves) :
          last.res.saves[t].assistant = responseDict(last.orig.resp).content

\* An in-scope doGenerate whose response carried two text parts around a
\* part of another type persisted the two texts, joined.
C32_Witness ==
  /\ last.surface = "doGenerate"
  /\ VercelInScope
  /\ last.orig = Returned(RespContent)
  /\ last.res.saves # <<>>
  /\ last.res.saves[1].assistant = <<"a", "b">>

\* Request prompts beyond those the callers of the model make: several user
\* messages between messages of other roles, multi-part content with parts
\* of other types, with no text part and with none at all, content that is
\* neither string nor array, an empty prompt.
ExtractionInputs ==
  Requests \cup
  {Options(<<>>),
   Options(<<Msg("system", <<"s">>), Msg("user", <<"u">>), Msg("assistant", <<"x">>),
             MsgParts("user", <<Part("text", <<"v">>), Part("image", <<"i">>),
                               Part("text", <<"w">>)>>),
             MsgParts("assistant", <<Part("text", <<"y">>)>>)>>),
   Options(<<Msg("user", <<"u">>), MsgParts("user", <<Part("image", <<"i">>)>>),
             Msg("user", <<"v">>)>>),
   Options(<<MsgOther("user"), Msg("user", <<"u">>), MsgParts("user", <<>>)>>),
   Options(<<Msg("assistant", <<"x">>), Msg("system", <<"s">>)>>)}

\* What one user message contributes: a string content itself, a multi-part
\* content its parts of type 'text' joined by one space.
contribution(msg) ==
  IF msg.kind = "str" THEN msg.text ELSE Join(TextParts(msg.parts), <<SP>>)

\* The user messages of a prompt whose content is a string or an array, in
\* request order.
userMessages(prompt) ==
  SelectSeq(prompt, LAMBDA msg : msg.role = "user" /\ msg.kind \in {"str", "parts"})

\* The contributions of the user messages, joined by a newline.
userText(prompt) ==
  LET um == userMessages(prompt)
  IN Join([i \in 1..Len(um) |-> contribution(um[i])], <<NL>>)

\* The extraction follows the select-and-join rule on every request.
ExtractionFollowsRule ==
  /\ \A o \in ExtractionInputs :
       extractUserMessagesFromOptions(o) =
         (IF o.hasPrompt THEN userText(o.prompt) ELSE <<>>)
  /\ extractUserMessagesFromOptions(OptionsNoPrompt) = <<>>

\* C33. User text extraction: for every request prompt the extraction
\* returns the contributions of the messages with role 'user', in request
\* order, joined by a newline; system and assistant messages contribute
\* nothing; a request without a prompt yields the empty string; the turn an
\* in-scope doGenerate persists carries that text as the user text.
C33_UserTextExtraction ==
  /\ ExtractionFollowsRule
  /\ (last.surface = "doGenerate" /\ VercelInScope) =>
       \A t \in 1..Len(last.res.saves) :
          last.res.saves[t].user =
            (IF last.options.hasPrompt THEN userText(last.options.prompt) ELSE <<>>)

\* An in-scope doGenerate whose request had one user message of two text
\* parts around an image persisted the two texts joined by a space.
C33_Witness ==
  /\ last.surface = "doGenerate"
  /\ VercelInScope
  /\ last.options = ReqParts
  /\ last.res.saves # <<>>
  /\ last.res.saves[1].user = <<"u", SP, "v">>

\* Data a write may carry besides WriteData: messages of other types with
\* text, and a user message without text.
OtherWrites ==
  {Chunk("assistant", <<"x">>), Chunk("control", <<"c">>), Chunk("invalid", <<"{">>),
   Chunk("user", <<>>), ChunkBlocks("user", <<Part("image", <<"i">>)>>)}

\* The pending user text of a scope between writes.
PendingTexts == {<<>>, <<"p">>}

\* Data that is no 'user' message with text leaves the pending text alone.
CaptureLeavesOthersAlone ==
  \A d \in OtherWrites, p \in PendingTexts : captureUserMessage(d, p) = p

\* C34. The Claude write wrapper is side-effect free towards the transport:
\* a write through the patched transport in an active scope invokes the
\* original write once with the same data and returns its outcome; data that
\* is no 'user' message with text leaves the scope's pending user text as it
\* was, and a 'user' message with text replaces it with that text.
C34_WriteWrapperFrame ==
  /\ (last.surface = "write" /\ Patched /\ last.config.active) =>
       /\ last.res.origReqs = <<last.options>>
       /\ last.res.out = last.orig
       /\ last.res.retr = 0 /\ last.res.saves = <<>>
       /\ currentConfig.pendingUserMessage =
            (IF last.options.type = "user" /\ extractContentFromMessage(last.options) # <<>>
             THEN extractContentFromMessage(last.options)
             ELSE last.config.pendingUserMessage)
       /\ [currentConfig EXCEPT !.pendingUserMessage = <<>>] =
            [last.config EXCEPT !.pendingUserMessage = <<>>]
  /\ CaptureLeavesOthersAlone

\* In an active scope that held the user text of an earlier write, a control
\* message was written through the patched transport and the text stayed.
C34_Witness ==
  /\ last.surface = "write"
  /\ Patched
  /\ last.config.active
  /\ last.options.type = "control"
  /\ last.config.pendingUserMessage # <<>>
  /\ currentConfig.pendingUserMessage = last.config.pendingUserMessage

\* C35. create() is fail-soft on sleeptime configuration: when the gateway's
\* agent creation succeeds, create() returns the created agent whether the
\* group modification succeeds or fails; it attempts that modification once
\* when the created agent carries a multi_agent_group id and not otherwise;
\* a failed agent creation reaches the caller and nothing is modified.
C35_CreateFailSoft ==
  lastCreate.called =>
    /\ lastCreate.createOK =>
         /\ lastCreate.out = "agent"
         /\ lastCreate.agentId \in AgentIds
    /\ lastCreate.modifies = (IF lastCreate.createOK /\ lastCreate.hasGroup THEN 1 ELSE 0)
    /\ ~lastCreate.createOK => lastCreate.out = "threw"

\* An agent with a group was created, the group modification failed, and
\* create() returned the agent.
C35_Witness ==
  /\ lastCreate.called
  /\ lastCreate.createOK /\ lastCreate.hasGroup /\ ~lastCreate.modifyOK
  /\ lastCreate.out = "agent"
  /\ lastCreate.modifies = 1

\* C36. The registry's active set has no duplicates: after any sequence of
\* registerInterceptor(), install() and uninstallAll(), installedInterceptors
\* holds at most one instance per registered variant.
C36_OneActivePerVariant ==
  \A j, k \in 1..Len(installedInterceptors) :
     installedInterceptors[j].variant = installedInterceptors[k].variant => j = k

\* The user texts a call hands to persistence: those of the turns it saves
\* itself and those its stream wrappers hold for the end of the stream.
persistedUserTexts(res) ==
  [k \in 1..Len(res.saves) |-> res.saves[k].user]
    \o [k \in 1..Len(res.layers) |-> res.layers[k].user]

\* Whether `text` carries a piece of the memory context `memory`.
containsMemory(text, memory) ==
  \E i \in 1..Len(text), j \in 1..Len(memory) : text[i] = memory[j]

\* C37. The persisted user text is independent of the injected memory: for
\* an in-scope Vercel call every user text handed to persistence is the text
\* extracted from the caller's request and carries nothing of the memory
\* context retrieved; and the same call, made again with any other memory
\* context the gateway may return, persists the same user texts.
C37_UserTextIndependentOfMemory ==
  (last.surface \in VMethods /\ VercelInScope) =>
     /\ \A k \in 1..Len(persistedUserTexts(last.res)) :
          /\ persistedUserTexts(last.res)[k] = extractUserMessagesFromOptions(last.options)
          /\ ~containsMemory(persistedUserTexts(last.res)[k], last.retrieved)
     /\ \A memory \in MemValues :
          persistedUserTexts(invoke(proto[last.surface], last.surface, last.options,
                                    last.config,
                                    [Env(memory, FALSE, last.orig) EXCEPT !.save = last.save],
                                    MaxInst + 1))
            = persistedUserTexts(last.res)

\* An in-scope doGenerate had the memory context injected into the request
\* the provider received and persisted the caller's user text.
C37_Witness ==
  /\ last.surface = "doGenerate"
  /\ VercelInScope
  /\ last.retrieved # <<>>
  /\ last.res.origReqs # <<>>
  /\ last.res.origReqs[1] # last.options
  /\ last.res.saves # <<>>
  /\ last.res.saves[1].user = <<"u">>

\* The request object the caller passed, after the call: the wrappers assign
\* to a property of the object they are given (options.prompt,
\* params.options.systemPrompt) and hand that same object on, so what the
\* caller holds afterwards is what the provider's implementation was handed.
requestObjectAfter(res, passed) ==
  IF res.origReqs # <<>> THEN res.origReqs[1] ELSE passed

\* C38. Injection leaves the caller's request object unchanged: after an
\* in-scope call on a patched surface has returned, the request
\* object the caller passed (Vercel options, Claude params) has the contents
\* it had before the call, so a further call with the same object sends the
\* memory context once again and not twice.
C38_RequestObjectUnchanged ==
  (/\ last.surface \in VMethods \cup {"query"}
   /\ Patched
   /\ last.config.active
   /\ last.res.out.kind = "ret"
   /\ last.res.origReqs # <<>>) =>
     /\ requestObjectAfter(last.res, last.options) = last.options
     /\ last.surface \in VMethods =>
          injectRetrieved(requestObjectAfter(last.res, last.options), last.retrieved, FALSE)
            = injectRetrieved(last.options, last.retrieved, FALSE)

====
